---- MODULE Spec2Model ----
(***************************************************************************)
(* On-Behalf-Of token broker of foundry-obo                                *)
(* (src/src/agent-with-local-tools/obo.py): validate_token,                *)
(* get_obo_token and validate_and_get_obo_token, with the identity         *)
(* provider (discovery document, JWKS, token endpoint) as the environment; *)
(* the tool query_data_on_behalf_of_user (query_data.py) that calls the    *)
(* broker and the data backend; and its two servers, the /query endpoint   *)
(* (main_fastapi.py) and agent_run (main_agentserver.py).                  *)
(*                                                                         *)
(* Strings are sequences of atoms: the seven characters "Bearer " are one  *)
(* atom, a blank is one atom, a compact JWT is one atom carrying its       *)
(* decoded header and payload, and "x" is text that is no JWT.  Formatted  *)
(* strings (f-strings) are tuples of their parts.                          *)
(***************************************************************************)
EXTENDS Integers, Sequences, FiniteSets, TLC

\* ------------------------------------------------------------------ bounds
\* Largest run of blanks put before or after the body of a header.
MaxWs == 1
\* Evaluation time of jwt.decode (time.time()); token times are relative to it.
Now == 1

\* ----------------------------------------------------- configuration (env)
TENANT_ID == "tenant-1"
CLIENT_ID == "client-1"
OTHER_TENANT == "tenant-2"
OTHER_CLIENT == "client-2"

\* Python's None.
None == "None"
\* A claim that the payload does not carry.
Absent == "<absent>"

\* ------------------------------------------------------------------ strings
BearerAtom == [ch |-> "Bearer "]
WsAtom == [ch |-> " "]
JunkAtom == [ch |-> "x"]
JwtAtom(t) == [ch |-> "jwt", tok |-> t]

\* str.startswith("Bearer ")
StartsWithBearer(s) == Len(s) > 0 /\ s[1] = BearerAtom

RECURSIVE LStrip(_)
LStrip(s) == IF Len(s) > 0 /\ s[1] = WsAtom THEN LStrip(Tail(s)) ELSE s

RECURSIVE RStrip(_)
RStrip(s) ==
    IF Len(s) > 0 /\ s[Len(s)] = WsAtom THEN RStrip(SubSeq(s, 1, Len(s) - 1)) ELSE s

\* str.strip()
Strip(s) == RStrip(LStrip(s))

\* bearer_token.replace("Bearer ", "", 1).strip() if it starts with "Bearer ",
\* else bearer_token unchanged (obo.py 93-97 and 200-204).
StripBearer(s) == IF StartsWithBearer(s) THEN Strip(Tail(s)) ELSE s

\* ------------------------------------------------------------------- tokens
ExpectedAudience == <<"api://", CLIENT_ID>>
ValidIssuers ==
    << <<"https://login.microsoftonline.com/", TENANT_ID, "/v2.0">>,
       <<"https://sts.windows.net/", TENANT_ID, "/">> >>

Kids == {"k1", "k2"}
Materials == {"m1", "m2"}
Algs == {"RS256", "HS256"}
Audiences == {ExpectedAudience, <<"api://", OTHER_CLIENT>>}
Issuers ==
    {ValidIssuers[1], ValidIssuers[2],
     <<"https://login.microsoftonline.com/", OTHER_TENANT, "/v2.0">>}
Oids == {Absent, "", "user-a"}

\* A compact JWT: the header's kid and alg, the key material that made the
\* signature, and the registered claims and oid of the payload.
Tokens ==
    [kid : Kids, alg : Algs, sig : Materials,
     exp : {Now, Now + 1}, iat : {Now, Now + 1}, nbf : {Now, Now + 1},
     aud : Audiences, iss : Issuers, oid : Oids]

\* A token that passes every check under a key (k1, RSA, m1).
GoodToken ==
    [kid |-> "k1", alg |-> "RS256", sig |-> "m1",
     exp |-> Now + 1, iat |-> Now, nbf |-> Now,
     aud |-> ExpectedAudience, iss |-> ValidIssuers[1], oid |-> "user-a"]

RECURSIVE Blanks(_)
Blanks(n) == IF n = 0 THEN <<>> ELSE <<WsAtom>> \o Blanks(n - 1)

\* Authorization header values: every token bare and with the prefix, and
\* the prefix/blank shapes around an empty body, non-JWT text and one token.
Headers ==
    {<<JwtAtom(t)>> : t \in Tokens}
    \cup {<<BearerAtom, JwtAtom(t)>> : t \in Tokens}
    \cup {p \o Blanks(l) \o b \o Blanks(r) :
            p \in {<<>>, <<BearerAtom>>, <<BearerAtom, BearerAtom>>},
            l \in 0..MaxWs, r \in 0..MaxWs,
            b \in {<<>>, <<JunkAtom>>, <<JwtAtom(GoodToken)>>}}

ScopeLists == {<<>>, <<"https://cosmos.azure.com/user_impersonation">>}

\* ------------------------------------------------------ identity provider
\* A JWK of the key set: its kid, its key type and its public key material.
Jwk(k, t, m) == [kid |-> k, kty |-> t, mat |-> m]

\* The "keys" arrays the JWKS endpoint may serve.
JwksDocs ==
    {<<>>,
     <<Jwk("k1", "RSA", "m1")>>,
     <<Jwk("k2", "RSA", "m2"), Jwk("k1", "RSA", "m1")>>,
     <<Jwk("k1", "RSA", "m2"), Jwk("k1", "RSA", "m1")>>,
     <<Jwk("k1", "EC", "m1"), Jwk("k2", "RSA", "m1")>>}

\* Outcomes of GET .../.well-known/openid-configuration (obo.py 48-53): the
\* request fails (connection error, timeout, error status, body that is no
\* JSON), or the document comes with or without "jwks_uri".
DiscoveryOutcomes == {"error", "no_jwks_uri", "ok"}

\* Outcomes of GET jwks_uri (obo.py 58-60): the request fails, or a key set.
JwksOutcomes == {[kind |-> "error"]} \cup {[kind |-> "ok", keys |-> d] : d \in JwksDocs}

\* Outcomes of acquire_token_on_behalf_of (obo.py 225): the dict MSAL returns,
\* or an exception out of the library.
OboResponses ==
    {[access_token |-> "obo-token-1"],
     [access_token |-> "obo-token-2", error_description |-> "stale"],
     [error |-> "invalid_grant", error_description |-> "AADSTS65001"],
     [error |-> "invalid_grant"]}
ExchangeOutcomes ==
    {[kind |-> "dict", body |-> d] : d \in OboResponses}
    \cup {[kind |-> "exception", exc |-> "ConnectionError"]}

\* Outcomes of ConfidentialClientApplication(...) (obo.py 217-221).
ClientOutcomes == {"ok", "ValueError"}

\* dict.get(k, default)
DictGet(d, k, default) == IF k \in DOMAIN d THEN d[k] ELSE default

\* --------------------------------------------------------------- outcomes
Pending == [kind |-> "pending"]
Return(v) == [kind |-> "return", value |-> v]
Raise(e, m) == [kind |-> "raise", exc |-> e, msg |-> m]

\* ----------------------------------------------------------------- PyJWT
\* jwt.InvalidTokenError and its subclasses.
InvalidTokenErrors ==
    {"InvalidTokenError", "DecodeError", "InvalidSignatureError",
     "ExpiredSignatureError", "InvalidAudienceError", "InvalidIssuerError",
     "InvalidIssuedAtError", "ImmatureSignatureError", "InvalidAlgorithmError",
     "MissingRequiredClaimError"}

\* jwt.get_unverified_header(token) (obo.py 111): the header of a compact
\* JWT; DecodeError for any other text.
get_unverified_header(token) ==
    IF Len(token) = 1 /\ token[1].ch = "jwt"
    THEN [exc |-> "none", kid |-> token[1].tok.kid, alg |-> token[1].tok.alg]
    ELSE [exc |-> "DecodeError"]

\* jwt.algorithms.RSAAlgorithm.from_jwk(key) (obo.py 119): InvalidKeyError
\* (a PyJWTError, no InvalidTokenError) for a JWK that is no RSA key.
from_jwk(key) ==
    IF key.kty = "RSA"
    THEN [exc |-> "none", found |-> TRUE, mat |-> key.mat]
    ELSE [exc |-> "InvalidKeyError", found |-> FALSE]

\* for key in signing_keys: if key.get("kid") == kid: signing_key =
\* from_jwk(key); break (obo.py 116-120).
RECURSIVE FindSigningKey(_, _)
FindSigningKey(signing_keys, kid) ==
    IF signing_keys = <<>> THEN [exc |-> "none", found |-> FALSE]
    ELSE IF Head(signing_keys).kid = kid THEN from_jwk(Head(signing_keys))
         ELSE FindSigningKey(Tail(signing_keys), kid)

\* A faulty variant: it leaves the expiry unchecked (verify_exp off).
jwt_decode_NoExp(tok, mat) ==
    IF tok.alg # "RS256" THEN "InvalidAlgorithmError"
    ELSE IF tok.sig # mat THEN "InvalidSignatureError"
    ELSE IF tok.iat > Now THEN "ImmatureSignatureError"
    ELSE IF tok.nbf > Now THEN "ImmatureSignatureError"
    ELSE IF \A i \in 1..Len(ValidIssuers) : ValidIssuers[i] # tok.iss
         THEN "InvalidIssuerError"
    ELSE IF tok.aud # ExpectedAudience THEN "InvalidAudienceError"
    ELSE "none"

\* jwt.decode(token, key, algorithms=["RS256"], audience=expected_audience,
\* issuer=valid_issuers, options={verify_signature, verify_exp, verify_iat,
\* verify_aud, verify_iss}) (obo.py 129-150); verify_nbf is on by default.
\* The exception it raises, or "none".
jwt_decode(tok, mat) ==
    IF tok.alg # "RS256" THEN "InvalidAlgorithmError"
    ELSE IF tok.sig # mat THEN "InvalidSignatureError"
    ELSE IF tok.iat > Now THEN "ImmatureSignatureError"
    ELSE IF tok.nbf > Now THEN "ImmatureSignatureError"
    ELSE IF tok.exp <= Now THEN "ExpiredSignatureError"
    ELSE IF \A i \in 1..Len(ValidIssuers) : ValidIssuers[i] # tok.iss
         THEN "InvalidIssuerError"
    ELSE IF tok.aud # ExpectedAudience THEN "InvalidAudienceError"
    ELSE "none"

\* -------------------------------------------------------- validate_token
\* A faulty variant: it hands an expired token's exception to the last handler.
ValidateHandler_ExpiredRaises(exc) ==
    IF exc \in InvalidTokenErrors \ {"ExpiredSignatureError"}
    THEN Return(None)
    ELSE Raise("TokenValidationError", <<"Token validation error: ", exc>>)

\* A faulty variant: it swallows every exception.
ValidateHandler_SwallowAll(exc) == Return(None)

\* The except clauses of validate_token (obo.py 164-174).
ValidateHandler(exc) ==
    IF exc = "ExpiredSignatureError" THEN Return(None)
    ELSE IF exc \in InvalidTokenErrors THEN Return(None)
    ELSE Raise("TokenValidationError", <<"Token validation error: ", exc>>)

\* oid = decoded_token.get("oid"); if not oid: return None; return oid
\* (obo.py 153-162).
ExtractOid(tok) == IF tok.oid = Absent \/ tok.oid = "" THEN Return(None) ELSE Return(tok.oid)

\* validate_token from the key set on (obo.py 107-174).
ValidateWithKeys(token, signing_keys) ==
    LET h == get_unverified_header(token) IN
    IF h.exc # "none" THEN ValidateHandler(h.exc)
    ELSE LET k == FindSigningKey(signing_keys, h.kid) IN
         IF k.exc # "none" THEN ValidateHandler(k.exc)
         ELSE IF ~k.found THEN Return(None)
         ELSE LET e == jwt_decode(token[1].tok, k.mat) IN
              IF e # "none" THEN ValidateHandler(e) ELSE ExtractOid(token[1].tok)

\* ---------------------------------------------------------- get_obo_token
\* A faulty variant: it lets exceptions of the library through unwrapped.
OboHandler_NoWrap(exc) == Raise(exc, <<exc>>)

\* except Exception as e: not an OboTokenError, so wrapped (obo.py 236-239).
OboHandler(exc) == Raise("OboTokenError", <<"Failed to acquire OBO token: ", exc>>)

\* A faulty variant: it checks the token alone.
OboPrecheck_NoScopes(token, sc) ==
    IF token = <<>> THEN "Invalid user token: empty or whitespace" ELSE "none"

\* if not token: raise ...; if not scopes: raise ... (obo.py 206-212): the
\* message of the OboTokenError raised, or "none".
OboPrecheck(token, sc) ==
    IF token = <<>> THEN "Invalid user token: empty or whitespace"
    ELSE IF sc = <<>> THEN "Scopes are required"
    ELSE "none"

\* if "access_token" not in result: raise OboTokenError(...);
\* return result["access_token"] (obo.py 227-234).
OboResult(r) ==
    IF "access_token" \notin DOMAIN r
    THEN Raise("OboTokenError",
               <<"Failed to acquire OBO token: ",
                 DictGet(r, "error_description", "Unknown error")>>)
    ELSE Return(r["access_token"])


\* The token validate_token decodes and verifies (obo.py 93-97).
ValidatorToken(bearer_token) ==
    IF StartsWithBearer(bearer_token) THEN Strip(Tail(bearer_token)) ELSE bearer_token

\* A faulty variant: it hands the identity provider the header as it came.
ExchangerToken_Raw(user_token) == user_token

\* The token get_obo_token checks and sends as user_assertion (obo.py 200-204).
ExchangerToken(user_token) ==
    IF StartsWithBearer(user_token) THEN Strip(Tail(user_token)) ELSE user_token

\* The strings of a formatted message.
Parts(m) == {m[i] : i \in DOMAIN m}

\* str(e) of an exception that ended an outcome, as print and logger get it.
RaisedText(o) == IF o.kind = "raise" THEN Parts(o.msg) ELSE {}

\* What validate_token prints and logs once it has the keys (obo.py 113, 123,
\* 134, 160-161, 173): the kid of the header, the expected audience, the
\* subject id it accepted, the text of an exception it wraps.
ValidatePrints(token, v) ==
    LET h == get_unverified_header(token) IN
    (IF h.exc = "none" THEN {h.kid} \cup Parts(ExpectedAudience) ELSE {})
    \cup RaisedText(v)
    \cup (IF v.kind = "return" /\ v.value # None THEN {v.value} ELSE {})

\* What get_obo_token prints when the provider has answered (obo.py 227-233):
\* the error_description of a response without access_token.
ExchangePrints(x) ==
    IF x.kind = "dict" /\ "access_token" \notin DOMAIN x.body
    THEN {DictGet(x.body, "error_description", "Unknown error")}
    ELSE {}

\* ------------------------------------------------------------- query_data
\* FUNCTION_APP_URL and OBO_SCOPE of the environment (query_data.py 11-12).
FUNCTION_APP_URL == "https://func.example"
OBO_SCOPE == "https://cosmos.azure.com/user_impersonation"

\* bearer_token=None, headers.get("Authorization", None): no header value.
NoHeader == <<[ch |-> "None"]>>

\* valid_containers (query_data.py 50).
valid_containers == <<"Finance", "HR", "Sales">>

\* A faulty variant: it takes every container name.
ValidContainer_Any(container) == TRUE

\* container in valid_containers (query_data.py 51).
ValidContainer(container) == \E i \in DOMAIN valid_containers : valid_containers[i] = container

Containers == {"Finance", "HR", "Sales", "Legal"}
Queries == {None, "SELECT c.id FROM c"}

\* Tokens of two users, and one of the first that has expired.
TokenOf(o) == [GoodToken EXCEPT !.oid = o]
ExpiredToken == [GoodToken EXCEPT !.exp = Now]

\* Authorization header values of requests to POST /query.
RequestHeaders ==
    {<<BearerAtom, JwtAtom(TokenOf("user-a"))>>,
     <<BearerAtom, JwtAtom(TokenOf("user-b"))>>,
     <<JwtAtom(TokenOf("user-a"))>>,
     <<BearerAtom, JwtAtom(ExpiredToken)>>,
     <<JunkAtom>>,
     <<>>}

\* Authorization header values of requests to the agent server, NoHeader for a
\* request without the header.
AgentHeaders ==
    {NoHeader,
     <<BearerAtom, JwtAtom(TokenOf("user-a"))>>,
     <<BearerAtom, JwtAtom(TokenOf("user-b"))>>}

RequestIds == {"r1", "r2"}

\* str(n) of the numbers the tool formats.
Str(n) ==
    CASE n = 0 -> "0" [] n = 2 -> "2" [] n = 200 -> "200" [] n = 401 -> "401"
      [] n = 403 -> "403" [] n = 404 -> "404" [] n = 500 -> "500" [] n = 502 -> "502"
      [] OTHER -> "n"

\* response.text of error responses and str(e) of exceptions: text of the
\* backend and of the HTTP library, in words.
Texts ==
    {<<"Internal Server Error">>, <<"Forbidden">>, <<"Gateway ", "Timeout">>,
     <<"upstream said ", "Unauthorized">>}

\* The JSON bodies of a 200 response.
Bodies ==
    {[Success |-> TRUE, ItemCount |-> 2, Data |-> <<"row", "row">>],
     [Success |-> TRUE],
     [Success |-> FALSE, errorMessage |-> <<"Query ", "timeout">>],
     [Success |-> FALSE]}

\* Statuses the tool has no branch for.
OtherStatuses == {500, 502}

\* Outcomes of client.post(api_url, ...) (query_data.py 85-86): a response,
\* or an exception of httpx or of response.json().
DownstreamOutcomes ==
    {[kind |-> "response", status |-> 200, json |-> b] : b \in Bodies}
    \cup {[kind |-> "response", status |-> s] : s \in {401, 403, 404}}
    \cup {[kind |-> "response", status |-> s, text |-> t] : s \in OtherStatuses, t \in Texts}
    \cup {[kind |-> "exception", exc |-> "TimeoutException"],
          [kind |-> "exception", exc |-> "ConnectError"]}
    \cup {[kind |-> "exception", exc |-> "Exception", text |-> t] : t \in Texts}

\* The values query_data_on_behalf_of_user returns.
Text(t) == [kind |-> "str", text |-> t]
Failure(error) == [kind |-> "dict", success |-> FALSE, error |-> error]
Success(container, n, data) ==
    [kind |-> "dict", success |-> TRUE, container |-> container, itemCount |-> n,
     data |-> data]

\* The result of the tool for the outcome o of the POST (query_data.py 87-149).
QueryResult(container, o) ==
    IF o.kind = "exception"
    THEN CASE o.exc = "TimeoutException" ->
                Failure(<<"Request ", "timeout", ": Azure Function did not respond in time">>)
           [] o.exc = "ConnectError" ->
                Failure(<<"Connection error: Could not connect to Azure Function at ",
                          FUNCTION_APP_URL, "/api/containers/query",
                          ". Make sure the function app is running.">>)
           [] OTHER -> Failure(<<"Unexpected error: ">> \o o.text)
    ELSE CASE o.status = 200 ->
                IF DictGet(o.json, "Success", FALSE)
                THEN Success(container, DictGet(o.json, "ItemCount", 0),
                             DictGet(o.json, "Data", <<>>))
                ELSE Failure(DictGet(o.json, "errorMessage", <<"Unknown error">>))
           [] o.status = 401 ->
                Failure(<<"Unauthorized", ": Invalid or missing authentication token">>)
           [] o.status = 403 ->
                Failure(<<"Forbidden", ": You do not have access to the ", container,
                          " container">>)
           [] o.status = 404 ->
                Failure(<<"Not found", ": Container '", container, "' does not exist">>)
           [] OTHER -> Failure(<<"HTTP ", Str(o.status), ": ">> \o o.text)

\* What the tool prints on its way in (query_data.py 43-66).
EntryPrints(container, query) ==
    {container} \cup (IF query # None THEN {query} ELSE {})

\* A faulty variant: it prints the headers of the request as well.
AcquiredPrints_Headers(oid, resource_token, container, query) ==
    {oid, resource_token, FUNCTION_APP_URL, container,
     IF query # None THEN query ELSE "SELECT * FROM c"}

\* What the tool prints between the exchange and the POST (query_data.py
\* 68-84): the subject id, the URL and the payload.
AcquiredPrints(oid, resource_token, container, query) ==
    {oid, FUNCTION_APP_URL, container, IF query # None THEN query ELSE "SELECT * FROM c"}

\* What the tool prints for the outcome o of the POST (query_data.py 87-148).
ResponsePrints(container, o) ==
    IF o.kind = "exception"
    THEN CASE o.exc = "TimeoutException" -> {}
           [] o.exc = "ConnectError" -> {FUNCTION_APP_URL}
           [] OTHER -> Parts(o.text)
    ELSE {Str(o.status)} \cup
         CASE o.status = 200 ->
                IF DictGet(o.json, "Success", FALSE)
                THEN {Str(DictGet(o.json, "ItemCount", 0)), container}
                ELSE Parts(DictGet(o.json, "errorMessage", <<"Unknown error">>))
           [] o.status \in {403, 404} -> {container}
           [] o.status = 401 -> {}
           [] OTHER -> Parts(o.text)

\* ------------------------------------------------------------ main_fastapi
\* kw in msg, for the words the endpoint looks for.
Contains(msg, kw) == \E i \in DOMAIN msg : msg[i] = kw

\* str.lower() of a word.
Lower(w) == CASE w = "Timeout" -> "timeout" [] w = "Forbidden" -> "forbidden"
              [] w = "Unauthorized" -> "unauthorized" [] w = "Not found" -> "not found"
              [] OTHER -> w

\* The status of the response to POST /query for what the tool call ended in
\* (main_fastapi.py 54-76): an exception out of the tool is handled nowhere
\* and the framework answers 500; a failure dict is mapped by the words of its
\* error; anything else is returned with 200.
QueryStatus(r) ==
    IF r.kind = "raise" THEN 500
    ELSE IF r.kind = "dict" /\ ~r.success
         THEN IF Contains(r.error, "Unauthorized") THEN 401
              ELSE IF Contains(r.error, "Forbidden") THEN 403
              ELSE IF Contains(r.error, "Not found") THEN 404
              ELSE IF \E i \in DOMAIN r.error : Lower(r.error[i]) = "timeout" THEN 504
              ELSE 500
         ELSE 200

\* ------------------------------------------------------------------ state
VARIABLES
    pc,             \* position of the call in flight
    entry,          \* the function the caller invoked
    header,         \* authorization_header / user_token of the call
    scopes,         \* scopes of the call
    signing_keys,   \* validate_token's signing_keys once retrieved
    vres,           \* outcome of validate_token in this call
    obo,            \* outcome of get_obo_token in this call
    result,         \* outcome of validate_and_get_obo_token
    assertion,      \* user_assertion of the exchange request of this call, <<>> before it
    net,            \* requests this call has issued, by kind
    io,             \* what the identity provider answered in this call
    everRetrieved,  \* an earlier or this call retrieved discovery document and JWKS
    warm,           \* everRetrieved as it was when this call began
    vtoken,         \* validate_token's token once stripped, <<>> before it
    printed,        \* the values print and logger have written in this call
    app,            \* the program that runs: a caller of obo.py, main_fastapi, main_agentserver
    global_auth_header, \* query_data._global_auth_header
    run,            \* the agent_run coroutines of the agent server, by request
    tool,           \* the call of query_data_on_behalf_of_user in flight
    down,           \* the POST to the data backend of this tool call and its outcome
    http            \* status of the response to POST /query, 0 before it

vars ==
    <<pc, entry, header, scopes, signing_keys, vres, obo, result, assertion, net, io,
      everRetrieved, warm, vtoken, printed, app, global_auth_header, run, tool, down,
      http>>

\* The state of the programs that call into obo.py.
outer == <<app, global_auth_header, run, tool, down, http>>

NoRequests == [disc |-> 0, jwks |-> 0, client |-> 0, exch |-> 0]
NoAnswers == [disc |-> "none", jwks |-> "none", client |-> "none", exch |-> [kind |-> "none"]]
NoTool == [pc |-> "none", caller |-> "none"]
NoPost == [sent |-> 0, auth |-> <<>>, answer |-> [kind |-> "none"]]

Terminal == {"UNAUTHENTICATED", "VALIDATION_ERROR", "EXCHANGED", "EXCHANGE_ERROR", "obo_done"}

Apps == {"obo", "main_fastapi", "main_agentserver"}

Init ==
    /\ pc = "idle"
    /\ entry = "none"
    /\ header = <<>>
    /\ scopes = <<>>
    /\ signing_keys = <<>>
    /\ vres = Pending
    /\ obo = Pending
    /\ result = Pending
    /\ assertion = <<>>
    /\ net = NoRequests
    /\ io = NoAnswers
    /\ everRetrieved = FALSE
    /\ warm = FALSE
    /\ vtoken = <<>>
    /\ printed = {}
    /\ app \in Apps
    /\ global_auth_header = NoHeader
    /\ run = [r \in RequestIds |-> [pc |-> "idle"]]
    /\ tool = NoTool
    /\ down = NoPost
    /\ http = 0

\* A caller invokes f with (h, sc); calls do not overlap (the functions block).
Invoke(f, h, sc, at) ==
    /\ pc' = at
    /\ entry' = f
    /\ header' = h
    /\ scopes' = sc
    /\ signing_keys' = <<>>
    /\ vres' = Pending
    /\ obo' = Pending
    /\ result' = Pending
    /\ assertion' = <<>>
    /\ net' = NoRequests
    /\ io' = NoAnswers
    /\ warm' = everRetrieved
    /\ vtoken' = <<>>
    /\ UNCHANGED everRetrieved

\* validate_and_get_obo_token(authorization_header, scopes) is called.
Call ==
    /\ pc = "idle"
    /\ app = "obo"
    /\ printed' = {}
    /\ UNCHANGED outer
    /\ \E h \in Headers, sc \in ScopeLists :
         Invoke("validate_and_get_obo_token", h, sc, "START")

\* get_obo_token(user_token, scopes) is called on its own.
CallGetOboToken ==
    /\ pc = "idle"
    /\ app = "obo"
    /\ printed' = {}
    /\ UNCHANGED outer
    /\ \E h \in Headers, sc \in ScopeLists : Invoke("get_obo_token", h, sc, "obo_entry")

\* A faulty variant: it goes on to the exchange whatever validate_token returned.
AfterValidate_NoCheck(v) ==
    /\ vres' = v
    /\ IF v.kind = "raise"
       THEN pc' = "VALIDATION_ERROR" /\ result' = v
       ELSE pc' = "obo_entry" /\ result' = Pending

\* A faulty variant: it raises for a caller whose token was rejected.
AfterValidate_RaiseOnNone(v) ==
    /\ vres' = v
    /\ IF v.kind = "raise" \/ v.value = None
       THEN /\ pc' = "VALIDATION_ERROR"
            /\ result' = Raise("TokenValidationError", <<"Token validation failed">>)
       ELSE pc' = "obo_entry" /\ result' = Pending

\* The orchestrator's lines after validate_token has ended with outcome v
\* (obo.py 272-281): an exception propagates, a falsy oid gives (None, None),
\* anything else calls get_obo_token.
AfterValidate(v) ==
    /\ vres' = v
    /\ IF v.kind = "raise"
       THEN pc' = "VALIDATION_ERROR" /\ result' = v
       ELSE IF v.value = None
            THEN pc' = "UNAUTHENTICATED" /\ result' = Return(<<None, None>>)
            ELSE pc' = "obo_entry" /\ result' = Pending

\* A faulty variant: it swallows the OboTokenError and reports an unauthenticated caller.
AfterObo_SwallowError(o) ==
    /\ obo' = o
    /\ IF entry = "get_obo_token"
       THEN pc' = "obo_done" /\ result' = Pending
       ELSE IF o.kind = "raise"
            THEN pc' = "UNAUTHENTICATED" /\ result' = Return(<<None, None>>)
            ELSE pc' = "EXCHANGED" /\ result' = Return(<<vres.value, o.value>>)

\* The orchestrator's lines after get_obo_token has ended with outcome o
\* (obo.py 281-289), or the return to the caller of get_obo_token.
AfterObo(o) ==
    /\ obo' = o
    /\ IF entry = "get_obo_token"
       THEN pc' = "obo_done" /\ result' = Pending
       ELSE IF o.kind = "raise"
            THEN pc' = "EXCHANGE_ERROR" /\ result' = o
            ELSE pc' = "EXCHANGED" /\ result' = Return(<<vres.value, o.value>>)

\* What the orchestrator prints and logs after get_obo_token has ended with
\* outcome o (obo.py 282-288): the subject id, or the text of the error.
OrchestratorPrints(o) ==
    IF entry = "get_obo_token" THEN {}
    ELSE IF o.kind = "raise" THEN Parts(o.msg)
    ELSE {vres.value}

\* validate_and_get_obo_token prints and calls validate_token (obo.py 270-272).
OrchestratorStart ==
    /\ pc = "START"
    /\ pc' = "validate_entry"
    /\ printed' = printed \cup Parts(scopes)
    /\ UNCHANGED <<entry, header, scopes, signing_keys, vres, obo, result, assertion,
                   net, io, everRetrieved, warm, vtoken>>
    /\ UNCHANGED outer

\* A faulty variant: it keeps the discovery document of an earlier call and asks for the
\* keys alone.
ValidateBegin_Cached ==
    /\ pc = "validate_entry"
    /\ vtoken' = ValidatorToken(header)
    /\ IF ValidatorToken(header) = <<>>
       THEN /\ AfterValidate(Return(None))
            /\ UNCHANGED <<net, printed>>
       ELSE IF everRetrieved
            THEN /\ pc' = "await_jwks"
                 /\ net' = [net EXCEPT !.jwks = @ + 1]
                 /\ printed' = printed \cup {TENANT_ID}
                 /\ UNCHANGED <<vres, result>>
            ELSE /\ pc' = "await_discovery"
                 /\ net' = [net EXCEPT !.disc = @ + 1]
                 /\ printed' = printed \cup {TENANT_ID}
                 /\ UNCHANGED <<vres, result>>
    /\ UNCHANGED <<entry, header, scopes, signing_keys, obo, assertion, io,
                   everRetrieved, warm>>
    /\ UNCHANGED outer

\* validate_token up to the discovery request (obo.py 88-106, 45-48): an empty
\* token returns None, any other sends GET openid-configuration.
ValidateBegin ==
    /\ pc = "validate_entry"
    /\ vtoken' = ValidatorToken(header)
    /\ IF ValidatorToken(header) = <<>>
       THEN /\ AfterValidate(Return(None))
            /\ UNCHANGED <<net, printed>>
       ELSE /\ pc' = "await_discovery"
            /\ net' = [net EXCEPT !.disc = @ + 1]
            /\ printed' = printed \cup {TENANT_ID}
            /\ UNCHANGED <<vres, result>>
    /\ UNCHANGED <<entry, header, scopes, signing_keys, obo, assertion, io,
                   everRetrieved, warm>>
    /\ UNCHANGED outer

\* A faulty variant: it sends the discovery request again when it failed.
DiscoveryResponse_Retry ==
    /\ pc = "await_discovery"
    /\ \E d \in DiscoveryOutcomes :
         /\ io' = [io EXCEPT !.disc = d]
         /\ IF d = "ok"
            THEN /\ pc' = "await_jwks"
                 /\ net' = [net EXCEPT !.jwks = @ + 1]
                 /\ UNCHANGED <<vres, result, printed>>
            ELSE IF d = "error"
                 THEN /\ pc' = "await_discovery"
                      /\ net' = [net EXCEPT !.disc = @ + 1]
                      /\ UNCHANGED <<vres, result, printed>>
                 ELSE /\ AfterValidate(ValidateHandler("TokenValidationError"))
                      /\ printed' = printed \cup RaisedText(ValidateHandler("TokenValidationError"))
                      /\ UNCHANGED net
    /\ UNCHANGED <<entry, header, scopes, signing_keys, obo, assertion, everRetrieved, warm,
                   vtoken>>
    /\ UNCHANGED outer

\* The discovery response arrives (obo.py 48-58, 64-67, 172-174): a failure
\* or a document without jwks_uri raises TokenValidationError, else GET jwks_uri.
DiscoveryResponse ==
    /\ pc = "await_discovery"
    /\ \E d \in DiscoveryOutcomes :
         /\ io' = [io EXCEPT !.disc = d]
         /\ IF d = "ok"
            THEN /\ pc' = "await_jwks"
                 /\ net' = [net EXCEPT !.jwks = @ + 1]
                 /\ UNCHANGED <<vres, result, printed>>
            ELSE /\ AfterValidate(ValidateHandler("TokenValidationError"))
                 /\ printed' = printed \cup RaisedText(ValidateHandler("TokenValidationError"))
                 /\ UNCHANGED net
    /\ UNCHANGED <<entry, header, scopes, signing_keys, obo, assertion, everRetrieved, warm,
                   vtoken>>
    /\ UNCHANGED outer

\* The JWKS response arrives and validate_token runs to its end (obo.py 58-67,
\* 107-174).
JwksResponse ==
    /\ pc = "await_jwks"
    /\ \E j \in JwksOutcomes :
         /\ io' = [io EXCEPT !.jwks = j.kind]
         /\ IF j.kind = "ok"
            THEN /\ signing_keys' = j.keys
                 /\ everRetrieved' = TRUE
                 /\ AfterValidate(ValidateWithKeys(vtoken, j.keys))
                 /\ printed' = printed \cup
                                 ValidatePrints(vtoken, ValidateWithKeys(vtoken, j.keys))
            ELSE /\ AfterValidate(ValidateHandler("TokenValidationError"))
                 /\ printed' = printed \cup RaisedText(ValidateHandler("TokenValidationError"))
                 /\ UNCHANGED <<signing_keys, everRetrieved>>
    /\ UNCHANGED <<entry, header, scopes, obo, assertion, net, warm, vtoken>>
    /\ UNCHANGED outer

\* get_obo_token up to the exchange request (obo.py 196-225): the checks of
\* token and scopes, the confidential client, acquire_token_on_behalf_of.
OboBegin ==
    /\ pc = "obo_entry"
    /\ LET token == ExchangerToken(header)
           failed == OboPrecheck(token, scopes)
       IN IF failed # "none"
          THEN /\ AfterObo(Raise("OboTokenError", <<failed>>))
               /\ printed' = printed \cup Parts(scopes) \cup {failed}
               /\ UNCHANGED <<net, io, assertion>>
          ELSE \E c \in ClientOutcomes :
                 /\ io' = [io EXCEPT !.client = c]
                 /\ IF c = "ok"
                    THEN /\ pc' = "await_exchange"
                         /\ net' = [net EXCEPT !.client = @ + 1, !.exch = @ + 1]
                         /\ assertion' = token
                         /\ printed' = printed \cup Parts(scopes) \cup {TENANT_ID}
                         /\ UNCHANGED <<obo, result>>
                    ELSE /\ AfterObo(OboHandler(c))
                         /\ net' = [net EXCEPT !.client = @ + 1]
                         /\ printed' = printed \cup Parts(scopes) \cup {TENANT_ID}
                                         \cup OrchestratorPrints(OboHandler(c))
                         /\ UNCHANGED assertion
    /\ UNCHANGED <<entry, header, scopes, signing_keys, vres, everRetrieved, warm, vtoken>>
    /\ UNCHANGED outer

\* The identity provider answers the exchange (obo.py 225-239, 282-289).
ExchangeResponse ==
    /\ pc = "await_exchange"
    /\ \E x \in ExchangeOutcomes :
         LET o == IF x.kind = "dict" THEN OboResult(x.body) ELSE OboHandler(x.exc) IN
         /\ io' = [io EXCEPT !.exch = x]
         /\ AfterObo(o)
         /\ printed' = printed \cup ExchangePrints(x) \cup OrchestratorPrints(o)
    /\ UNCHANGED <<entry, header, scopes, signing_keys, vres, assertion, net,
                   everRetrieved, warm, vtoken>>
    /\ UNCHANGED outer

\* A faulty variant: the tool of a request takes the header of its own request.
ToolBearer_OfRequest(caller, bearer_token) ==
    IF bearer_token = NoHeader THEN run[caller].auth ELSE bearer_token

\* if bearer_token is None: bearer_token = _global_auth_header (query_data.py
\* 58-59).
ToolBearer(caller, bearer_token) ==
    IF bearer_token = NoHeader THEN global_auth_header ELSE bearer_token

\* query_data_on_behalf_of_user(container, query, bearer_token) is called and
\* runs to its call of validate_and_get_obo_token (query_data.py 43-67): a
\* container that is not valid returns a text, no token at all returns a
\* failure.
ToolCall(caller, container, query, bearer_token) ==
    LET frame == [caller |-> caller, container |-> container, query |-> query]
        bearer == ToolBearer(caller, bearer_token)
    IN
    /\ down' = NoPost
    /\ IF ~ValidContainer(container)
       THEN /\ tool' = frame @@
                 [pc |-> "ended",
                  result |-> Text(<<"Error: Invalid container '", container,
                                    "'. Must be one of: ", "Finance, HR, Sales">>)]
            /\ printed' = EntryPrints(container, query)
            /\ UNCHANGED <<pc, entry, header, scopes, signing_keys, vres, obo, result,
                           assertion, net, io, everRetrieved, warm, vtoken>>
       ELSE IF bearer = NoHeader
            THEN /\ tool' = frame @@
                      [pc |-> "ended",
                       result |-> Failure(<<"No authentication token provided">>)]
                 /\ printed' = EntryPrints(container, query)
                 /\ UNCHANGED <<pc, entry, header, scopes, signing_keys, vres, obo, result,
                                assertion, net, io, everRetrieved, warm, vtoken>>
            ELSE /\ tool' = frame @@ [pc |-> "in_obo", result |-> [kind |-> "none"]]
                 /\ printed' = EntryPrints(container, query) \cup {OBO_SCOPE}
                 /\ Invoke("validate_and_get_obo_token", bearer, <<OBO_SCOPE>>, "START")

\* POST /query arrives and the endpoint calls the tool with the Authorization
\* header of the request (main_fastapi.py 36-58).
QueryRequest ==
    /\ app = "main_fastapi"
    /\ tool.pc = "none"
    /\ UNCHANGED <<app, global_auth_header, run, http>>
    /\ \E h \in RequestHeaders, c \in Containers, q \in Queries : ToolCall("/query", c, q, h)

\* agent_run of request r up to its await (main_agentserver.py 96-105): a
\* request without the header raises, any other stores its header in the
\* module's slot (query_data.py 17-24).  The coroutine runs when the event
\* loop is free: no tool call is inside validate_and_get_obo_token, which
\* blocks.
AgentRun(r) ==
    /\ app = "main_agentserver"
    /\ tool.pc # "in_obo"
    /\ run[r].pc = "idle"
    /\ \E h \in AgentHeaders :
         IF h = NoHeader
         THEN UNCHANGED <<global_auth_header, run>>
         ELSE /\ global_auth_header' = h
              /\ run' = [run EXCEPT ![r] = [pc |-> "awaiting", auth |-> h]]
    /\ UNCHANGED <<pc, entry, header, scopes, signing_keys, vres, obo, result, assertion,
                   net, io, everRetrieved, warm, vtoken, printed, app, tool, down, http>>

\* The agent of request r, inside agent.run, calls the tool with container and
\* query alone (main_agentserver.py 93, 105).
AgentToolCall(r) ==
    /\ app = "main_agentserver"
    /\ tool.pc = "none"
    /\ run[r].pc = "awaiting"
    /\ UNCHANGED <<app, global_auth_header, run, http>>
    /\ \E c \in Containers, q \in Queries : ToolCall(r, c, q, NoHeader)

\* validate_and_get_obo_token has ended and the tool goes on (query_data.py
\* 67-86): an exception leaves the tool, a pair is unpacked and the POST sent
\* with "Bearer " and the second of the pair as Authorization.
ToolAfterObo ==
    /\ tool.pc = "in_obo"
    /\ pc \in Terminal
    /\ IF result.kind = "raise"
       THEN /\ tool' = [tool EXCEPT !.pc = "ended", !.result = result]
            /\ UNCHANGED <<down, printed>>
       ELSE /\ tool' = [tool EXCEPT !.pc = "await_post"]
            /\ down' = [down EXCEPT !.sent = @ + 1, !.auth = <<"Bearer ", result.value[2]>>]
            /\ printed' = printed \cup
                            AcquiredPrints(result.value[1], result.value[2],
                                           tool.container, tool.query)
    /\ UNCHANGED <<pc, entry, header, scopes, signing_keys, vres, obo, result, assertion,
                   net, io, everRetrieved, warm, vtoken, app, global_auth_header, run,
                   http>>

\* The POST ends and the tool returns (query_data.py 86-149).
DownstreamResponse ==
    /\ tool.pc = "await_post"
    /\ \E o \in DownstreamOutcomes :
         /\ down' = [down EXCEPT !.answer = o]
         /\ tool' = [tool EXCEPT !.pc = "ended", !.result = QueryResult(tool.container, o)]
         /\ printed' = printed \cup ResponsePrints(tool.container, o)
    /\ UNCHANGED <<pc, entry, header, scopes, signing_keys, vres, obo, result, assertion,
                   net, io, everRetrieved, warm, vtoken, app, global_auth_header, run,
                   http>>

\* The endpoint answers the request for what the tool call ended in
\* (main_fastapi.py 60-76).
QueryRespond ==
    /\ app = "main_fastapi"
    /\ tool.pc = "ended"
    /\ http = 0
    /\ http' = QueryStatus(tool.result)
    /\ UNCHANGED <<pc, entry, header, scopes, signing_keys, vres, obo, result, assertion,
                   net, io, everRetrieved, warm, vtoken, printed, app, global_auth_header,
                   run, tool, down>>

\* agent.run of request r ends and agent_run returns its response
\* (main_agentserver.py 105-129); the slot keeps the header.
AgentRunEnd(r) ==
    /\ app = "main_agentserver"
    /\ tool.pc # "in_obo"
    /\ run[r].pc = "awaiting"
    /\ tool.caller # r
    /\ run' = [run EXCEPT ![r] = [pc |-> "idle"]]
    /\ UNCHANGED <<pc, entry, header, scopes, signing_keys, vres, obo, result, assertion,
                   net, io, everRetrieved, warm, vtoken, printed, app, global_auth_header,
                   tool, down, http>>

\* The call has ended: its frame is gone, and nothing but what the modules keep
\* for the life of the process (obo.py keeps nothing, query_data.py its slot)
\* is left for the next call.  A call of obo.py ends in a terminal state, a
\* request to /query with its response, a tool call of the agent when the tool
\* has returned or raised.
Finish ==
    /\ \/ app = "obo" /\ pc \in Terminal
       \/ app = "main_fastapi" /\ http # 0
       \/ app = "main_agentserver" /\ tool.pc = "ended"
    /\ pc' = "idle"
    /\ entry' = "none"
    /\ header' = <<>>
    /\ scopes' = <<>>
    /\ signing_keys' = <<>>
    /\ vres' = Pending
    /\ obo' = Pending
    /\ result' = Pending
    /\ assertion' = <<>>
    /\ net' = NoRequests
    /\ io' = NoAnswers
    /\ warm' = everRetrieved
    /\ vtoken' = <<>>
    /\ printed' = {}
    /\ tool' = NoTool
    /\ down' = NoPost
    /\ http' = 0
    /\ UNCHANGED <<everRetrieved, app, global_auth_header, run>>

Next ==
    \/ Call
    \/ CallGetOboToken
    \/ OrchestratorStart
    \/ ValidateBegin
    \/ DiscoveryResponse
    \/ JwksResponse
    \/ OboBegin
    \/ ExchangeResponse
    \/ QueryRequest
    \/ \E r \in RequestIds : AgentRun(r)
    \/ \E r \in RequestIds : AgentToolCall(r)
    \/ ToolAfterObo
    \/ DownstreamResponse
    \/ QueryRespond
    \/ \E r \in RequestIds : AgentRunEnd(r)
    \/ Finish

Spec == Init /\ [][Next]_vars

\* A call that has begun runs on: the functions are sequential code, and every
\* request to the identity provider ends in a response or a failure.  Nothing
\* obliges a caller to call.
FairSpec ==
    /\ Spec
    /\ WF_vars(OrchestratorStart)
    /\ WF_vars(ValidateBegin)
    /\ WF_vars(DiscoveryResponse)
    /\ WF_vars(JwksResponse)
    /\ WF_vars(OboBegin)
    /\ WF_vars(ExchangeResponse)

\* ------------------------------------------------------------------ claims
Orchestrated == entry = "validate_and_get_obo_token"

\* validate_token has ended in this call of the orchestrator.
ValidateEnded == Orchestrated /\ vres # Pending

\* validate_token returned a subject id.
Accepted == vres.kind = "return" /\ vres.value # None

\* The stripped header is one compact JWT.
IsJwt(s) == Len(s) = 1 /\ s[1].ch = "jwt"

IssuerIsCanonical(t) ==
    \/ t.iss = <<"https://login.microsoftonline.com/", TENANT_ID, "/v2.0">>
    \/ t.iss = <<"https://sts.windows.net/", TENANT_ID, "/">>

\* The retrieved key with the token's kid (the first, when several have it) is
\* an RSA key that verifies the token's RS256 signature.
FirstKeyVerifies(t) ==
    \E i \in DOMAIN signing_keys :
        /\ signing_keys[i].kid = t.kid
        /\ \A j \in 1..(i - 1) : signing_keys[j].kid # t.kid
        /\ signing_keys[i].kty = "RSA"
        /\ t.alg = "RS256"
        /\ t.sig = signing_keys[i].mat

\* C1 as stated: validate_token returns a subject id exactly when the keys were
\* retrieved, the retrieved key with the header's kid verifies the RS256
\* signature, the token is not expired, audience and issuer are the expected
\* ones and oid is not empty; the value returned is the oid.
C1_AsStated ==
    ValidateEnded =>
        LET s == StripBearer(header) IN
        /\ Accepted <=>
             /\ io.jwks = "ok"
             /\ IsJwt(s)
             /\ FirstKeyVerifies(s[1].tok)
             /\ s[1].tok.exp > Now
             /\ s[1].tok.aud = <<"api://", CLIENT_ID>>
             /\ IssuerIsCanonical(s[1].tok)
             /\ s[1].tok.oid \notin {Absent, ""}
        /\ Accepted => vres.value = s[1].tok.oid

\* C1 amended: validate_token returns a subject id exactly when the keys were
\* retrieved, the retrieved key with the header's kid verifies the RS256
\* signature, the token is not expired and neither its iat nor its nbf lies in
\* the future, audience and issuer are the expected ones and oid is not empty;
\* the value returned is the oid.
C1_ValidateAccepts ==
    ValidateEnded =>
        LET s == StripBearer(header) IN
        /\ Accepted <=>
             /\ io.jwks = "ok"
             /\ IsJwt(s)
             /\ FirstKeyVerifies(s[1].tok)
             /\ s[1].tok.exp > Now
             /\ s[1].tok.iat <= Now
             /\ s[1].tok.nbf <= Now
             /\ s[1].tok.aud = <<"api://", CLIENT_ID>>
             /\ IssuerIsCanonical(s[1].tok)
             /\ s[1].tok.oid \notin {Absent, ""}
        /\ Accepted => vres.value = s[1].tok.oid

\* A token was accepted though a later key of the set has its kid too.
C1_Witness ==
    /\ ValidateEnded
    /\ Accepted
    /\ vres.value = "user-a"
    /\ Len(signing_keys) = 2
    /\ signing_keys[2].mat = "m1"

\* The orchestrator has called get_obo_token, or a client was built or an
\* exchange request sent.
ExchangeReached ==
    \/ pc \in {"obo_entry", "await_exchange", "EXCHANGED", "EXCHANGE_ERROR"}
    \/ obo # Pending
    \/ net.client > 0
    \/ net.exch > 0
    \/ assertion # <<>>

\* C2: in a call of validate_and_get_obo_token the exchange is reached only
\* after validate_token has returned, in this call and for this header, a subject
\* id that is not null.
C2_ExchangeOnlyAfterValidation ==
    (Orchestrated /\ ExchangeReached) =>
        /\ Accepted
        /\ io.jwks = "ok"
        /\ IsJwt(StripBearer(header))
        /\ vres.value = StripBearer(header)[1].tok.oid

\* The orchestrator has sent the exchange request.
C2_Witness == Orchestrated /\ net.exch = 1 /\ pc = "await_exchange"

\* C3: when validate_token returns null the orchestrator returns (null, null),
\* raises nothing, builds no client and sends no exchange request.
C3_NullMeansUnauthenticated ==
    (Orchestrated /\ vres = Return(None)) =>
        /\ pc = "UNAUTHENTICATED"
        /\ result = Return(<<None, None>>)
        /\ obo = Pending
        /\ net.client = 0
        /\ net.exch = 0

\* A token was rejected against retrieved keys.
C3_Witness ==
    /\ Orchestrated
    /\ vres = Return(None)
    /\ signing_keys # <<>>
    /\ result = Return(<<None, None>>)

\* The discovery request failed, the document had no jwks_uri, or the JWKS
\* request failed.
KeyRetrievalFailed == io.disc \in {"error", "no_jwks_uri"} \/ io.jwks = "error"

\* C4: when key retrieval fails for a non-empty token, validate_token raises
\* TokenValidationError, the orchestrator hands it to its caller, and no
\* exchange request is made.
C4_RetrievalFailureRaises ==
    (Orchestrated /\ KeyRetrievalFailed) =>
        /\ StripBearer(header) # <<>>
        /\ vres.kind = "raise"
        /\ vres.exc = "TokenValidationError"
        /\ pc = "VALIDATION_ERROR"
        /\ result = vres
        /\ obo = Pending
        /\ net.client = 0
        /\ net.exch = 0

\* The JWKS request failed after a good discovery document.
C4_Witness ==
    /\ Orchestrated
    /\ io.disc = "ok"
    /\ io.jwks = "error"
    /\ result.kind = "raise"

\* The token is malformed, has a kid no retrieved key has, a bad signature, is
\* expired, has a wrong audience or issuer, or lacks the oid claim.
Untrusted(s) ==
    \/ ~IsJwt(s)
    \/ \A i \in DOMAIN signing_keys : signing_keys[i].kid # s[1].tok.kid
    \/ ~FirstKeyVerifies(s[1].tok)
    \/ s[1].tok.exp <= Now
    \/ s[1].tok.aud # <<"api://", CLIENT_ID>>
    \/ ~IssuerIsCanonical(s[1].tok)
    \/ s[1].tok.oid \in {Absent, ""}

\* The first retrieved key with the token's kid, when there is one, is an RSA key.
SelectedKeyLoads(s) ==
    IsJwt(s) =>
        \A i \in DOMAIN signing_keys :
            (/\ signing_keys[i].kid = s[1].tok.kid
             /\ \A j \in 1..(i - 1) : signing_keys[j].kid # s[1].tok.kid)
            => signing_keys[i].kty = "RSA"

OboChecked == pc \in {"await_exchange", "EXCHANGED", "EXCHANGE_ERROR", "obo_done"}

\* C6: get_obo_token with a token that is empty once stripped, or with no
\* scopes, raises OboTokenError with no client built and no request sent.
C6_FailFast ==
    (OboChecked /\ (StripBearer(header) = <<>> \/ scopes = <<>>)) =>
        /\ obo.kind = "raise"
        /\ obo.exc = "OboTokenError"
        /\ io.client = "none"
        /\ net.client = 0
        /\ net.exch = 0

\* get_obo_token was called with a token and no scopes, and has raised.
C6_Witness ==
    /\ OboChecked
    /\ StripBearer(header) # <<>>
    /\ scopes = <<>>
    /\ obo = Raise("OboTokenError", <<"Scopes are required">>)

\* C7: get_obo_token returns the access_token of the provider's response when
\* the response has one, and raises OboTokenError in every other case; for a
\* response without access_token the error carries its error_description, or
\* "Unknown error" when it has none.
C7_TwoOutcomes ==
    (OboChecked /\ obo # Pending) =>
        IF io.exch.kind = "dict" /\ "access_token" \in DOMAIN io.exch.body
        THEN obo = Return(io.exch.body["access_token"])
        ELSE /\ obo.kind = "raise"
             /\ obo.exc = "OboTokenError"
             /\ io.exch.kind = "dict" =>
                  obo.msg[Len(obo.msg)] =
                      IF "error_description" \in DOMAIN io.exch.body
                      THEN io.exch.body["error_description"]
                      ELSE "Unknown error"

\* The provider answered without access_token and without error_description.
C7_Witness ==
    /\ io.exch = [kind |-> "dict", body |-> [error |-> "invalid_grant"]]
    /\ obo = Raise("OboTokenError", <<"Failed to acquire OBO token: ", "Unknown error">>)

ValidateStarted == Orchestrated /\ pc \notin {"START", "validate_entry"}

C9_NoRetries ==
    Orchestrated =>
        /\ net.disc <= 1
        /\ net.jwks <= 1
        /\ net.client <= 1
        /\ net.exch <= 1

\* A call has ended in an error of the exchange after one request of each kind.
C9_Witness ==
    /\ Orchestrated
    /\ pc = "EXCHANGE_ERROR"
    /\ net = [disc |-> 1, jwks |-> 1, client |-> 1, exch |-> 1]

\* The state of the orchestrator's state machine at the position of the call.
OrchState ==
    IF ~Orchestrated THEN "NONE"
    ELSE CASE pc = "START" -> "START"
           [] pc \in {"validate_entry", "await_discovery", "await_jwks"} -> "VALIDATING"
           [] pc \in {"obo_entry", "await_exchange"} -> "EXCHANGING"
           [] OTHER -> pc

OrchTerminal == {"UNAUTHENTICATED", "VALIDATION_ERROR", "EXCHANGED", "EXCHANGE_ERROR"}

OrchTransitions ==
    {<<"START", "VALIDATING">>,
     <<"VALIDATING", "UNAUTHENTICATED">>,
     <<"VALIDATING", "VALIDATION_ERROR">>,
     <<"VALIDATING", "EXCHANGING">>,
     <<"EXCHANGING", "EXCHANGED">>,
     <<"EXCHANGING", "EXCHANGE_ERROR">>}

\* What the call hands its caller in each terminal state.
TerminalOutcome ==
    /\ OrchState = "UNAUTHENTICATED" => result = Return(<<None, None>>)
    /\ OrchState = "VALIDATION_ERROR" =>
         result.kind = "raise" /\ result.exc = "TokenValidationError"
    /\ OrchState = "EXCHANGED" =>
         /\ result.kind = "return"
         /\ result.value = <<vres.value, obo.value>>
         /\ vres.value # None
    /\ OrchState = "EXCHANGE_ERROR" =>
         result.kind = "raise" /\ result.exc = "OboTokenError"
    /\ OrchState \notin OrchTerminal => result = Pending

\* C10: a call of the orchestrator, its requests being answered, ends in one of
\* UNAUTHENTICATED (null, null), VALIDATION_ERROR (TokenValidationError),
\* EXCHANGED (the pair) and EXCHANGE_ERROR (OboTokenError), and moves only from
\* START to VALIDATING, from VALIDATING to UNAUTHENTICATED, VALIDATION_ERROR or
\* EXCHANGING, and from EXCHANGING to EXCHANGED or EXCHANGE_ERROR.
C10_Terminates ==
    /\ [][\/ OrchState' = OrchState
          \/ <<OrchState, OrchState'>> \in OrchTransitions
          \/ OrchState \in OrchTerminal \cup {"NONE"} /\ OrchState' \in {"START", "NONE"}]_vars
    /\ []TerminalOutcome
    /\ (OrchState = "START") ~> (OrchState \in OrchTerminal)

\* A call has ended with the pair of subject id and delegated token.
C10_Witness ==
    /\ OrchState = "EXCHANGED"
    /\ result = Return(<<"user-a", "obo-token-1">>)


\* The words of the error a tool call ended in: the text it returned for a
\* container, the error of a failure, the message of an exception.
ErrorText(r) ==
    CASE r.kind = "raise" -> Parts(r.msg)
      [] r.kind = "str" -> Parts(r.text)
      [] r.kind = "dict" /\ ~r.success -> Parts(r.error)
      [] OTHER -> {}

\* C11: the access token of a successful exchange is in nothing that
\* get_obo_token, validate_and_get_obo_token or the tool print or log and in
\* no error or exception text; it is in the orchestrator's return value and in
\* the Authorization header of the POST to the data backend.
C11_TokenNeverWritten ==
    obo.kind = "return" =>
        /\ obo.value \notin printed
        /\ result.kind = "raise" => obo.value \notin Parts(result.msg)
        /\ tool.pc # "none" => obo.value \notin ErrorText(tool.result)
        /\ (Orchestrated /\ pc = "EXCHANGED") => result.value[2] = obo.value
        /\ down.sent > 0 => down.auth = <<"Bearer ", obo.value>>

\* A tool call got a token, sent it to the backend and ended in a failure
\* whose text it printed.
C11_Witness ==
    /\ tool.pc = "ended"
    /\ obo = Return("obo-token-1")
    /\ down.auth = <<"Bearer ", "obo-token-1">>
    /\ down.answer.kind = "response"
    /\ down.answer.status = 500
    /\ tool.result.kind = "dict"
    /\ "user-a" \in printed
    /\ "Internal Server Error" \in printed

\* C12: a tool call made for an agent_run request, without bearer_token,
\* validates and exchanges the header that set_auth_header stored last,
\* whichever request stored it; with two requests in flight that is the header
\* of the other request when that one stored after this one.
C12_ToolReadsLastStored ==
    (app = "main_agentserver" /\ tool.pc = "in_obo") => header = global_auth_header

\* The tool called for request r1, which carried the token of user-a, has
\* validated and exchanged the token of user-b, which request r2 stored.
C12_Witness ==
    /\ tool.pc = "in_obo"
    /\ tool.caller = "r1"
    /\ run["r1"].auth = <<BearerAtom, JwtAtom(TokenOf("user-a"))>>
    /\ run["r2"].pc = "awaiting"
    /\ run["r2"].auth = <<BearerAtom, JwtAtom(TokenOf("user-b"))>>
    /\ header = run["r2"].auth
    /\ pc = "EXCHANGED"
    /\ assertion = <<JwtAtom(TokenOf("user-b"))>>
    /\ result = Return(<<"user-b", "obo-token-1">>)

\* C13: a tool call with a container other than Finance, HR and Sales has
\* ended at once with a text that names the error, and has sent no discovery,
\* JWKS, client, exchange or backend request, whatever the bearer token and
\* the slot hold.
C13_InvalidContainerNoNetwork ==
    (tool.pc # "none" /\ tool.container \notin {"Finance", "HR", "Sales"}) =>
        /\ tool.pc = "ended"
        /\ tool.result =
             Text(<<"Error: Invalid container '", tool.container, "'. Must be one of: ",
                    "Finance, HR, Sales">>)
        /\ pc = "idle"
        /\ net = NoRequests
        /\ io = NoAnswers
        /\ down = NoPost

\* The agent of a request whose token is stored in the slot called the tool
\* for container Legal.
C13_Witness ==
    /\ app = "main_agentserver"
    /\ global_auth_header = <<BearerAtom, JwtAtom(TokenOf("user-a"))>>
    /\ tool.pc = "ended"
    /\ tool.container = "Legal"
    /\ tool.result.kind = "str"

\* C14 as stated: when the orchestrator raised OboTokenError in the tool call
\* of a request to /query, the response has status 401 or 403.
C14_AsStated ==
    (app = "main_fastapi" /\ http # 0 /\ result.kind = "raise"
       /\ result.exc = "OboTokenError") =>
        http \in {401, 403}

\* The status that names the kind of the outcome o of the POST: 401, 403 and
\* 404 their own, a timeout 504, any other status, a connection error and an
\* unexpected error 500.
KindStatus(o) ==
    IF o.kind = "exception"
    THEN (IF o.exc = "TimeoutException" THEN 504 ELSE 500)
    ELSE IF o.status \in {401, 403, 404} THEN o.status ELSE 500

\* C15 as stated: the response to /query has the status of the kind of outcome
\* the POST to the backend had, for every outcome other than a 200 response;
\* a 403 for container HR gives the error "Forbidden: You do not have access
\* to the HR container".
C15_AsStated ==
    (app = "main_fastapi" /\ http # 0 /\ down.answer.kind # "none"
       /\ ~(down.answer.kind = "response" /\ down.answer.status = 200)) =>
        /\ tool.result.kind = "dict"
        /\ ~tool.result.success
        /\ http = KindStatus(down.answer)
        /\ (down.answer.kind = "response" /\ down.answer.status = 403
              /\ tool.container = "HR") =>
             tool.result.error =
                 <<"Forbidden", ": You do not have access to the ", "HR", " container">>

\* C16 as stated: the POST to the backend carries "Bearer " and the token a
\* successful exchange of this tool call returned, and no POST is sent when the
\* orchestrator returned (None, None).
C16_AsStated ==
    /\ down.sent > 0 =>
         /\ obo.kind = "return"
         /\ down.auth = <<"Bearer ", obo.value>>
    /\ (tool.pc \in {"await_post", "ended"} /\ result = Return(<<None, None>>)) =>
         down.sent = 0

\* C17: in a call of the orchestrator the user_assertion sent to the identity
\* provider is the token validate_token decoded and verified, for headers with
\* and without the prefix.
C17_SameToken ==
    /\ ValidateStarted => ExchangerToken(header) = vtoken
    /\ (Orchestrated /\ net.exch > 0) =>
         /\ assertion = vtoken
         /\ vres.kind = "return"
         /\ vres.value # None

\* A header with the prefix and a blank on either side of the token has been
\* validated and exchanged.
C17_Witness ==
    /\ Orchestrated
    /\ header = <<BearerAtom, WsAtom, JwtAtom(GoodToken), WsAtom>>
    /\ net.exch = 1
    /\ vtoken = <<JwtAtom(GoodToken)>>
    /\ assertion = <<JwtAtom(GoodToken)>>

\* The user token is empty or blanks alone, the prefix set aside.
BlankToken(s) == Strip(IF StartsWithBearer(s) THEN Tail(s) ELSE s) = <<>>

\* C18 as stated: get_obo_token, called with scopes and a token that is empty
\* or blanks alone, with or without the prefix, raises OboTokenError("Invalid
\* user token: empty or whitespace") with no client built and no request sent.
C18_AsStated ==
    (OboChecked /\ scopes # <<>> /\ BlankToken(header)) =>
        /\ obo = Raise("OboTokenError", <<"Invalid user token: empty or whitespace">>)
        /\ io.client = "none"
        /\ net.client = 0
        /\ net.exch = 0
====
